---- MODULE Spec2Model ----
(***************************************************************************)
(* Model of rye's self-bootstrap subsystem (rye/src/bootstrap.rs).         *)
(*                                                                         *)
(* The state is the app directory (self/, uv/, py/, shims/), the two       *)
(* process-wide statics of bootstrap.rs (the lazy UP_TO_UPDATE cache and   *)
(* FORCED_TO_UPDATE) and the position of the single-threaded orchestrator  *)
(* ensure_self_venv_with_toolchain.  The orchestrator is modelled step by  *)
(* step, one action per fallible operation, so that a failure can abort    *)
(* the run at every `?` of the source.                                     *)
(***************************************************************************)
EXTENDS Integers, Sequences, FiniteSets, TLC

(***************************************************************************)
(* Program constants                                                       *)
(***************************************************************************)
SELF_VERSION == 14

SELF_PYTHON_TARGET_VERSION ==
    [name |-> "cpython", major |-> 3, minor |-> 12, patch |-> -1]

(***************************************************************************)
(* Decimal formatting and parsing of tool-version.txt.                     *)
(* A file's content is a sequence of one-character strings.                *)
(***************************************************************************)
Digits == <<"0", "1", "2", "3", "4", "5", "6", "7", "8", "9">>

DigitChars == {Digits[i] : i \in 1..10}

DigitVal(c) == (CHOOSE i \in 1..10 : Digits[i] = c) - 1

RECURSIVE U64ToStringLsbFirst(_)
\* faulty variant: emits the least significant digit first
U64ToStringLsbFirst(n) ==
    IF n < 10 THEN <<Digits[n + 1]>>
    ELSE <<Digits[(n % 10) + 1]>> \o U64ToStringLsbFirst(n \div 10)

RECURSIVE U64ToString(_)
\* u64::to_string: decimal digits, most significant first, no sign
U64ToString(n) ==
    IF n < 10 THEN <<Digits[n + 1]>>
    ELSE U64ToString(n \div 10) \o <<Digits[(n % 10) + 1]>>

RECURSIVE DigitsValue(_)
DigitsValue(s) ==
    IF s = <<>> THEN 0
    ELSE 10 * DigitsValue(SubSeq(s, 1, Len(s) - 1)) + DigitVal(s[Len(s)])

ParseErr == -1

\* str::parse::<u64>: an optional leading '+', then one or more digits and
\* nothing else (no whitespace, no trailing newline); ParseErr otherwise
ParseU64(s) ==
    LET body == IF s # <<>> /\ s[1] = "+" THEN Tail(s) ELSE s
    IN  IF body = <<>> THEN ParseErr
        ELSE IF \A i \in 1..Len(body) : body[i] \in DigitChars
             THEN DigitsValue(body)
             ELSE ParseErr

NoFile == <<"<absent>">>

\* faulty variant: map_or(true, ..), a missing marker counts as current
ReadUpToDateMissingIsCurrent(selfIsDir, content) ==
    /\ selfIsDir
    /\ content = NoFile \/ ParseU64(content) = SELF_VERSION

\* the closure of UP_TO_UPDATE: read_to_string(..).ok().map_or(false, parse == Ok(SELF_VERSION))
ReadUpToDate(selfIsDir, content) ==
    /\ selfIsDir
    /\ content # NoFile
    /\ ParseU64(content) = SELF_VERSION

(***************************************************************************)
(* Interpreter versions, requests and the compiled-in catalog              *)
(***************************************************************************)
V38  == [name |-> "cpython", major |-> 3, minor |-> 8,  patch |-> 18]
V311 == [name |-> "cpython", major |-> 3, minor |-> 11, patch |-> 7]
V312 == [name |-> "cpython", major |-> 3, minor |-> 12, patch |-> 1]
V313 == [name |-> "cpython", major |-> 3, minor |-> 13, patch |-> 0]
VPyPy == [name |-> "pypy", major |-> 3, minor |-> 10, patch |-> 13]

Catalog == {V38, V311, V312, V313, VPyPy}

NoRequest == [name |-> "none", major |-> -1, minor |-> -1, patch |-> -1]

Req(n, ma, mi) == [name |-> n, major |-> ma, minor |-> mi, patch |-> -1]

Requests ==
    { NoRequest, Req("cpython", 3, 11), Req("cpython", 3, 13), Req("cpython", 3, 8) }

\* the argument pairs the orchestrator is called with
CallInputs ==
    {<<"Normal", r>> : r \in Requests} \cup {<<"Quiet", NoRequest>>, <<"Verbose", NoRequest>>}

\* faulty variant: the upper bound of the window moved to 3.13
is_self_compatible_toolchain_upto13(version) ==
    /\ version.name = "cpython"
    /\ version.major = 3
    /\ version.minor >= 9
    /\ version.minor <= 13

\* faulty variant: the implementation name is not looked at
is_self_compatible_toolchain_any_name(version) ==
    /\ version.major = 3
    /\ version.minor >= 9
    /\ version.minor <= 12

\* we only support cpython 3.9 to 3.12
is_self_compatible_toolchain(version) ==
    /\ version.name = "cpython"
    /\ version.major = 3
    /\ version.minor >= 9
    /\ version.minor <= 12

\* derived Ord of PythonVersion: (name, major, minor, patch); the only two
\* names of the catalog compare "cpython" < "pypy"
NameRank(n) == IF n = "cpython" THEN 0 ELSE 1

VersionLess(a, b) ==
    \/ NameRank(a.name) < NameRank(b.name)
    \/ /\ a.name = b.name
       /\ \/ a.major < b.major
          \/ a.major = b.major /\ a.minor < b.minor
          \/ a.major = b.major /\ a.minor = b.minor /\ a.patch < b.patch

\* faulty variant: the least version is taken
MinVersion(S) == CHOOSE v \in S : \A w \in S : w = v \/ VersionLess(v, w)

\* Iterator::max over PythonVersion
MaxVersion(S) == CHOOSE v \in S : \A w \in S : w = v \/ VersionLess(w, v)

Matches(request, v) ==
    /\ request.name = v.name
    /\ request.major = v.major
    /\ request.minor = -1 \/ request.minor = v.minor
    /\ request.patch = -1 \/ request.patch = v.patch

Matching(request) == {v \in Catalog : Matches(request, v)}

\* PythonVersion::try_from(request) succeeds only for a concrete request
IsConcrete(request) == request.minor # -1 /\ request.patch # -1

AsRequest(v) == [name |-> v.name, major |-> v.major, minor |-> v.minor, patch |-> v.patch]

(***************************************************************************)
(* Archives and digests                                                    *)
(***************************************************************************)
\* the files of a version directory; "bin" is the executable
Files == {"lib", "bin"}

\* the bytes of a downloaded buffer: those the catalog digest was taken
\* from, or anything else
GoodBytes == "good"
BadBytes  == "corrupt"
Buffers   == {GoodBytes, BadBytes}
NoBuffer  == "none"

\* stand-in for SHA-256 rendered as lowercase hex
Sha256Hex(b) == IF b = GoodBytes THEN <<"a", "1">> ELSE <<"b", "2">>

LowerChar(c) == IF c = "A" THEN "a" ELSE IF c = "B" THEN "b" ELSE c

Lower(s) == [i \in 1..Len(s) |-> LowerChar(s[i])]

\* check_checksum: compare the buffer's digest to the expected hex digest
check_checksum(buffer, expected) == Sha256Hex(buffer) = Lower(expected)

UvSha256 == <<"A", "1">>

NoDigest == <<>>

\* the catalog's digest of a version's archive (3.11 is listed without one)
PySha256(v) == IF v = V311 THEN NoDigest ELSE <<"a", "1">>

(***************************************************************************)
(* State                                                                   *)
(***************************************************************************)
VARIABLES
    pc,          \* position of the orchestrator; "idle"/"returned" between calls
    entry,       \* the public function the current call entered
    output,      \* CommandOutput argument of the current call
    request,     \* toolchain_version_request of the current call
    url,         \* url argument of the current call of download_url
    ret,         \* the value inside Ok(..) returned by download_url
    result,      \* Result of the last call
    log,         \* side effects and echo lines of the current call, in order
    pre,         \* snapshot taken when the current call was made
    upToUpdate,  \* static UP_TO_UPDATE: Lazy<bool>
    forced,      \* static FORCED_TO_UPDATE: AtomicBool
    selfDir,     \* <app_dir>/self is a directory
    toolVersion, \* content of self/tool-version.txt
    env,         \* what the helper put into self/
    uv,          \* <app_dir>/uv/<version>/
    py,          \* <app_dir>/py/<version>/ for every catalog version
    shimsDir,    \* <app_dir>/shims is a directory
    shim,        \* what each core shim refers to
    ryeInShims,  \* <app_dir>/shims/rye is a file
    linked,      \* the core shims that are hard links: one inode with their target
    ryeIntact,   \* shims/rye still has the bytes it was installed with
    ECHO_STATE,  \* the static AtomicU8 of tui.rs
    guards,      \* the live RedirectGuard values, oldest first
    tui,         \* the last tui operation and what it did
    platform,    \* the target the binary was compiled for
    buffer,      \* archive_buffer of the download in flight
    version,     \* the interpreter version being provisioned
    fetchReq,    \* the request handed to fetch
    ext,         \* external changes to self/ since the last return
    last,        \* how the last call ended
    extChanged,  \* self/ changed externally since this process read or stamped the marker
    nEvents      \* calls, external changes, restarts and failures so far

tuiVars  == <<ECHO_STATE, guards, tui>>
procVars == <<upToUpdate, forced, tuiVars>>
selfVars == <<selfDir, toolVersion, env>>
shimVars == <<shimsDir, shim, ryeInShims, platform, linked, ryeIntact>>
fsVars   == <<selfDir, toolVersion, env, uv, py, shimsDir, shim, ryeInShims, platform,
             linked, ryeIntact>>
callVars == <<entry, output, request, pre, url, ret>>
tmpVars  == <<buffer, version, fetchReq>>
histVars == <<ext, last, extChanged>>

\* bound of the exploration: the number of calls, external changes, process
\* restarts and failing operations of a behaviour
MaxEvents == 6

\* everything but the echo state
appVars == <<pc, entry, output, request, url, ret, result, log, pre, upToUpdate, forced,
             selfDir, toolVersion, env, uv, py, shimsDir, shim, ryeInShims, platform,
             linked, ryeIntact, buffer, version, fetchReq, ext, last, extChanged, nEvents>>

vars == <<pc, entry, output, request, url, ret, result, log, pre, upToUpdate, forced, selfDir,
          toolVersion, env, uv, py, shimsDir, shim, ryeInShims, platform, linked, ryeIntact,
          ECHO_STATE, guards, tui, buffer,
          version, fetchReq, ext, last, extChanged, nEvents>>

Outputs == {"Quiet", "Normal", "Verbose"}

Platforms == {"linux", "unix", "windows"}

\* the core shims of a platform, in the order update_core_shims installs them
CoreShims(p) ==
    IF p = "windows" THEN <<"python.exe", "python3.exe", "pythonw.exe">>
    ELSE <<"python", "python3">>

ShimNames == UNION {{CoreShims(p)[k] : k \in 1..Len(CoreShims(p))} : p \in Platforms}

\* the strategies update_core_shims tries for a shim, in order
Strategies(p) ==
    IF p = "linux" THEN <<"hardlink", "copy">>
    ELSE IF p = "windows" THEN <<"symlink", "hardlink">>
    ELSE <<"symlink">>

\* self/ holds no environment, the one `uv venv` created, or that one with
\* the pinned requirements installed
EmptyEnv == "none"

EmptyDir == [dir |-> FALSE, files |-> {}]

NoResult == [ok |-> FALSE, err |-> "none"]

NoUrl == <<>>

\* Option<Vec<u8>>: None, or Some(bytes)
NoRet == [some |-> FALSE, bytes |-> ""]

NoVersion == [name |-> "none", major |-> -1, minor |-> -1, patch |-> -1]

NoPre == [selfDir |-> FALSE, toolVersion |-> NoFile, env |-> EmptyEnv,
          b2b |-> FALSE, prevOk |-> FALSE, ext |-> "none", last |-> "none",
          cacheTrue |-> FALSE, lazyUnset |-> FALSE, emptyApp |-> FALSE, py |-> [v \in Catalog |-> EmptyDir],
          uv |-> EmptyDir, shim |-> [n \in ShimNames |-> "none"],
          rye |-> <<FALSE, TRUE>>]

\* contents an external writer (an older or newer build, an editor) leaves in
\* tool-version.txt
MarkerInputs == { <<"1", "3">>, <<"1", "4", "\n">> }

IsInstalled(d) == d.dir /\ "bin" \in d.files

\* list_known_toolchains: the versions found under py/
list_known_toolchains == {v \in Catalog : IsInstalled(py[v])}

\* tool-version.txt exists and holds exactly the digits of SELF_VERSION's value
MarkerCurrent(selfIsDir, content) ==
    /\ selfIsDir
    /\ content # NoFile
    /\ ParseU64(content) = 14

Has(e) == \E i \in 1..Len(log) : log[i] = e

Before(a, b) == \E i, j \in 1..Len(log) : i < j /\ log[i] = a /\ log[j] = b

\* faulty variant: the line is printed in every output mode
EchoInEveryMode(l, line) == Append(l, line)

\* echo!(..) guarded by `output != CommandOutput::Quiet`
Echo(l, line) == IF output # "Quiet" THEN Append(l, line) ELSE l

(***************************************************************************)
(* tui.rs: the echo state and its guards                                   *)
(***************************************************************************)
\* enum EchoState as u8
STDOUT == 0
STDERR == 1
QUIET == 2

\* the largest number of guards alive at once
MaxGuards == 3

\* impl From<u8> for EchoState
EchoStateFrom(v) ==
    CASE v = 0 -> "STDOUT"
      [] v = 1 -> "STDERR"
      [] v = 2 -> "QUIET"
      [] OTHER -> "panic"

\* where _print sends a line in each state
Stream(v) ==
    CASE EchoStateFrom(v) = "STDOUT" -> "stdout"
      [] EchoStateFrom(v) = "STDERR" -> "stderr"
      [] EchoStateFrom(v) = "QUIET" -> "nothing"
      [] OTHER -> "panic"

\* ECHO_STATE.store(v) on a cell that holds cell
Store(cell, v) == v

\* faulty variant: the guard keeps the state the call has set
redirect_to_stderr_guards_new(cur, yes) ==
    LET state == IF yes THEN STDERR ELSE STDOUT
    IN  [state |-> Store(cur, state), guard |-> state]

\* redirect_to_stderr: the state it stores and the value of its guard
redirect_to_stderr(cur, yes) ==
    LET old   == cur
        state == IF yes THEN STDERR ELSE STDOUT
    IN  [state |-> Store(cur, state), guard |-> old]

\* quiet: the conditional store of lines 51-55, then the store of line 56
quiet(cur, yes) ==
    LET old    == cur
        first  == IF yes THEN Store(cur, QUIET) ELSE Store(cur, STDOUT)
        second == Store(first, QUIET)
    IN  [state |-> second, guard |-> old]

\* Drop for RedirectGuard: the value it stores
drop(g) == g.old

NoTui == [op |-> "none", yes |-> FALSE, before |-> STDOUT, out |-> "none",
          lifo |-> TRUE, base |-> STDOUT]

\* the guard created last among the live ones
Innermost == guards[Len(guards)]

\* a guard is created by fn(yes).  Beside the value of RedirectGuard the
\* entry records, for the properties, which call made it and the state the
\* call found; lifo and base follow the order of the drops since the guard
\* stack was last empty and the state it was empty in.
Guard(fn, yes, r) ==
    /\ Len(guards) < MaxGuards
    /\ ECHO_STATE' = r.state
    /\ guards' = Append(guards, [old |-> r.guard, fn |-> fn, yes |-> yes,
                                 before |-> ECHO_STATE])
    /\ tui' = [op |-> fn, yes |-> yes, before |-> ECHO_STATE, out |-> "none",
               lifo |-> (guards = <<>> \/ tui.lifo),
               base |-> (IF guards = <<>> THEN ECHO_STATE ELSE tui.base)]

CallRedirect(yes) ==
    /\ Guard("redirect_to_stderr", yes, redirect_to_stderr(ECHO_STATE, yes))
    /\ UNCHANGED appVars

CallQuiet(yes) ==
    /\ Guard("quiet", yes, quiet(ECHO_STATE, yes))
    /\ UNCHANGED appVars

\* the guard at position i goes out of scope
DropGuard(i) ==
    /\ i \in 1..Len(guards)
    /\ ECHO_STATE' = drop(guards[i])
    /\ guards' = [j \in 1..(Len(guards) - 1) |->
                      IF j < i THEN guards[j] ELSE guards[j + 1]]
    /\ tui' = [tui EXCEPT !.op = "drop", !.yes = guards[i].yes,
                          !.before = guards[i].before, !.out = "none",
                          !.lifo = (tui.lifo /\ i = Len(guards))]
    /\ UNCHANGED appVars

\* echo!(..) expands to _print
_print ==
    /\ tui' = [tui EXCEPT !.op = "_print", !.out = Stream(ECHO_STATE)]
    /\ UNCHANGED <<ECHO_STATE, guards, appVars>>

NextTui ==
    \/ \E yes \in BOOLEAN : CallRedirect(yes)
    \/ \E yes \in BOOLEAN : CallQuiet(yes)
    \/ \E i \in 1..MaxGuards : DropGuard(i)
    \/ _print

\* an empty app directory and a fresh process
InitApp ==
    /\ pc = "idle"
    /\ entry = "orchestrator"
    /\ output = "Normal"
    /\ request = NoRequest
    /\ url = NoUrl
    /\ ret = NoRet
    /\ result = NoResult
    /\ log = <<>>
    /\ pre = NoPre
    /\ upToUpdate = "unset"
    /\ forced = FALSE
    /\ selfDir = FALSE
    /\ toolVersion = NoFile
    /\ env = EmptyEnv
    /\ uv = EmptyDir
    /\ py = [v \in Catalog |-> EmptyDir]
    /\ shimsDir = FALSE
    /\ shim = [n \in ShimNames |-> "none"]
    /\ ryeInShims = FALSE
    /\ linked = {}
    /\ ryeIntact = TRUE
    /\ ECHO_STATE = STDOUT
    /\ guards = <<>>
    /\ tui = NoTui
    /\ buffer = NoBuffer
    /\ version = NoVersion
    /\ fetchReq = NoRequest
    /\ ext = "none"
    /\ last = "none"
    /\ extChanged = FALSE
    /\ nEvents = 0

Init == InitApp /\ platform = "linux"

\* the call returns: Ok(venv_dir) or Err(e)
Return(ok, e) ==
    /\ pc' = "returned"
    /\ result' = [ok |-> ok, err |-> e]
    /\ IF entry = "orchestrator"
       THEN /\ ext' = "none"
            /\ last' = (IF ok
                        THEN (IF MarkerCurrent(selfDir', toolVersion')
                              THEN "ok" ELSE "ok_stale")
                        ELSE (IF \E i \in 1..Len(log') : log'[i] = "provision"
                              THEN "failed_prov" ELSE "failed"))
       ELSE UNCHANGED <<ext, last>>

Between == pc \in {"idle", "returned"}

\* one more event of the behaviour, while the bound allows it
Event ==
    /\ nEvents < MaxEvents
    /\ nEvents' = nEvents + 1

\* an operation of the environment (file system, network, helper) fails
Fault(failed) == IF failed THEN Event ELSE UNCHANGED nEvents

\* the state a call starts from
Snapshot ==
    [selfDir |-> selfDir, toolVersion |-> toolVersion, env |-> env,
     b2b |-> (pc = "returned" /\ entry = "orchestrator"),
     prevOk |-> (pc = "returned" /\ entry = "orchestrator" /\ result.ok),
     ext |-> ext, last |-> last,
     cacheTrue |-> (upToUpdate = "true" \/ forced),
     lazyUnset |-> (upToUpdate = "unset"),
     emptyApp |-> (~selfDir /\ ~uv.dir /\ ~shimsDir
                   /\ \A v \in Catalog : ~py[v].dir),
     py |-> py, uv |-> uv, shim |-> shim,
     rye |-> <<ryeInShims, ryeIntact>>]

(***************************************************************************)
(* ensure_self_venv_with_toolchain                                         *)
(***************************************************************************)
Call(o, r) ==
    /\ Between
    /\ Event
    /\ pc' = "check"
    /\ entry' = "orchestrator"
    /\ output' = o
    /\ request' = r
    /\ url' = NoUrl
    /\ ret' = NoRet
    /\ result' = NoResult
    /\ log' = <<>>
    /\ pre' = Snapshot
    /\ buffer' = NoBuffer
    /\ version' = NoVersion
    /\ fetchReq' = NoRequest
    /\ UNCHANGED <<procVars, fsVars, histVars>>

\* faulty variant: the marker is read at every query
LazyValueRereads ==
    IF ReadUpToDate(selfDir, toolVersion) THEN "true" ELSE "false"

\* faulty variant: the Lazy is initialised to false without reading the marker
LazyValueNeverReads ==
    IF upToUpdate = "unset" THEN "false" ELSE upToUpdate

\* is_up_to_date(): the Lazy is forced on first use, then `|| FORCED_TO_UPDATE`
LazyValue ==
    IF upToUpdate = "unset"
    THEN (IF ReadUpToDate(selfDir, toolVersion) THEN "true" ELSE "false")
    ELSE upToUpdate

\* faulty variant: FORCED_TO_UPDATE is not consulted
is_up_to_date_ignores_forced == LazyValue = "true"

is_up_to_date == LazyValue = "true" \/ forced

\* lines 85-95: the staleness check
CheckVenvDir ==
    /\ pc = "check"
    /\ UNCHANGED nEvents
    /\ IF selfDir
       THEN /\ upToUpdate' = LazyValue
            /\ extChanged' = (IF upToUpdate = "unset" /\ LazyValue = "true"
                              THEN FALSE ELSE extChanged)
            /\ IF is_up_to_date
               THEN /\ log' = log
                    /\ UNCHANGED <<fsVars>>
                    /\ pc' = "returned"
                    /\ result' = [ok |-> TRUE, err |-> ""]
                    /\ ext' = "none"
                    /\ last' = (IF MarkerCurrent(selfDir, toolVersion)
                                 THEN "ok" ELSE "ok_stale")
               ELSE /\ log' = Echo(log, "echo_outdated")
                    /\ pc' = "remove"
                    /\ UNCHANGED <<fsVars, result, ext, last>>
       ELSE /\ pc' = "uv"
            /\ UNCHANGED <<fsVars, result, ext, last, upToUpdate, extChanged, log>>
    /\ UNCHANGED <<forced, tuiVars, callVars, tmpVars>>

\* lines 92-93: fs::remove_dir_all(&venv_dir)
RemoveSelf(outcome) ==
    /\ pc = "remove"
    /\ Fault(outcome # "ok")
    /\ \/ /\ outcome = "ok"
          /\ selfDir' = FALSE
          /\ toolVersion' = NoFile
          /\ env' = EmptyEnv
          /\ log' = Append(log, "remove_self")
          /\ pc' = "uv"
          /\ UNCHANGED <<result, ext, last>>
       \/ /\ outcome = "err"
          /\ UNCHANGED selfVars
          /\ log' = Append(log, "remove_self_failed")
          /\ Return(FALSE, "remove_self")
       \/ /\ outcome = "err_partial"
          /\ selfDir' = TRUE
          /\ toolVersion' = NoFile
          /\ env' = EmptyEnv
          /\ log' = Append(log, "remove_self_failed")
          /\ Return(FALSE, "remove_self")
    /\ UNCHANGED <<procVars, uv, py, shimVars, callVars, tmpVars, extChanged>>

(***************************************************************************)
(* Uv::ensure_exists and Uv::download                                      *)
(***************************************************************************)
\* outcomes of download_url: a transport error, a 404, another non-2xx
\* status, or a 2xx response with its bytes
DownloadOutcomes == {"transport", "404", "500"} \cup Buffers

\* unpack_archive writes the entries of the archive into the target
\* directory, creating it first; it stops at the first error and leaves what
\* it wrote.  `written` is the set of entries written before it returned.
UnpackInto(d, written) == [dir |-> TRUE, files |-> d.files \cup written]

\* the entries are written in archive order, the executable last
ArchiveEntries == <<"lib", "bin">>

UnpackOutcomes == {{ArchiveEntries[i] : i \in 1..k} : k \in 0..Len(ArchiveEntries)}

\* faulty variant: downloads the helper without looking for an installed one
EnsureUvAlwaysDownloads ==
    /\ pc = "uv"
    /\ UNCHANGED nEvents
    /\ log' = Append(Echo(log, "echo_bootstrapping"), "provision")
    /\ pc' = "uv_download"
    /\ UNCHANGED <<procVars, fsVars, callVars, tmpVars, histVars, result>>

\* faulty variant: the helper counts as installed when its directory exists
EnsureUvDirOnly ==
    /\ pc = "uv"
    /\ UNCHANGED nEvents
    /\ log' = Append(Echo(log, "echo_bootstrapping"), "provision")
    /\ pc' = IF uv.dir THEN "toolchain" ELSE "uv_download"
    /\ UNCHANGED <<procVars, fsVars, callVars, tmpVars, histVars, result>>

\* lines 97-102 and 479-488: the Bootstrapping line, then the installed check
EnsureUv ==
    /\ pc = "uv"
    /\ UNCHANGED nEvents
    /\ log' = Append(Echo(log, "echo_bootstrapping"), "provision")
    /\ pc' = IF uv.dir /\ "bin" \in uv.files THEN "toolchain" ELSE "uv_download"
    /\ UNCHANGED <<procVars, fsVars, callVars, tmpVars, histVars, result>>

\* line 500: download_url(&download.url, output)?
UvDownload(d) ==
    /\ pc = "uv_download"
    /\ Fault(d # GoodBytes)
    /\ log' = Append(log, "download_uv")
    /\ UNCHANGED <<procVars, fsVars, callVars, version, fetchReq, extChanged>>
    /\ IF d \in Buffers
       THEN /\ buffer' = d
            /\ pc' = "uv_check"
            /\ UNCHANGED <<result, ext, last>>
       ELSE /\ buffer' = NoBuffer
            /\ Return(FALSE, "download")

\* faulty variant: the result of check_checksum is dropped
UvCheckIgnoresMismatch ==
    /\ pc = "uv_check"
    /\ UNCHANGED nEvents
    /\ log' = Append(log, "check_uv")
    /\ UNCHANGED <<procVars, fsVars, callVars, tmpVars, extChanged>>
    /\ pc' = "uv_unpack"
    /\ UNCHANGED <<result, ext, last>>

\* lines 503-504: all uv downloads must have a sha256 checksum
UvCheck ==
    /\ pc = "uv_check"
    /\ UNCHANGED nEvents
    /\ log' = Append(log, "check_uv")
    /\ UNCHANGED <<procVars, fsVars, callVars, tmpVars, extChanged>>
    /\ IF check_checksum(buffer, UvSha256)
       THEN /\ pc' = "uv_unpack"
            /\ UNCHANGED <<result, ext, last>>
       ELSE Return(FALSE, "checksum")

\* lines 507-513 and 491-495: unpack, then look for the binary again.
\* `ok` is the result of unpack_archive; it can succeed on an archive that
\* holds no binary at the expected path
UvUnpack(written, ok) ==
    /\ pc = "uv_unpack"
    /\ ok => written \in {Files, {"lib"}}
    /\ ~ok => written # Files
    /\ Fault(written # Files)
    /\ uv' = UnpackInto(uv, written)
    /\ log' = log \o <<"unpack_uv">>
                   \o (IF Sha256Hex(buffer) # Lower(UvSha256)
                       THEN <<"unverified_uv">> ELSE <<>>)
                   \o (IF written \cap uv.files # {} THEN <<"clobber_uv">> ELSE <<>>)
    /\ UNCHANGED <<procVars, selfVars, py, shimVars, callVars, tmpVars, extChanged>>
    /\ IF ok
       THEN IF uv'.dir /\ "bin" \in uv'.files
            THEN /\ pc' = "toolchain"
                 /\ UNCHANGED <<result, ext, last>>
            ELSE Return(FALSE, "uv_missing")
       ELSE Return(FALSE, "unpack")

(***************************************************************************)
(* ensure_latest_self_toolchain, ensure_specific_self_toolchain, fetch     *)
(***************************************************************************)
\* latest_available_python_version(request): the greatest catalog match
HasLatest(r) == Matching(r) # {}

latest_available_python_version(r) == MaxVersion(Matching(r))

\* lines 104-118 with 268-287 and 290-319
Toolchain ==
    /\ pc = "toolchain"
    /\ UNCHANGED nEvents
    /\ UNCHANGED <<procVars, fsVars, callVars, buffer, extChanged>>
    /\ IF request = NoRequest
       THEN LET found == {v \in list_known_toolchains : is_self_compatible_toolchain(v)}
            IN  IF found # {}
                THEN /\ version' = MaxVersion(found)
                     /\ log' = Echo(log, "echo_found")
                     /\ pc' = "ldd"
                     /\ UNCHANGED <<fetchReq, result, ext, last>>
                ELSE /\ fetchReq' = SELF_PYTHON_TARGET_VERSION
                     /\ pc' = "fetch"
                     /\ UNCHANGED <<version, log, result, ext, last>>
       ELSE IF ~HasLatest(request)
            THEN /\ UNCHANGED <<version, fetchReq, log>>
                 /\ Return(FALSE, "not_available")
            ELSE LET tv == latest_available_python_version(request)
                 IN  IF ~is_self_compatible_toolchain(tv)
                     THEN /\ UNCHANGED <<version, fetchReq, log>>
                          /\ Return(FALSE, "unsupported")
                     ELSE IF "bin" \notin py[tv].files
                          THEN /\ log' = Echo(log, "echo_fetching")
                               /\ fetchReq' = AsRequest(tv)
                               /\ pc' = "fetch"
                               /\ UNCHANGED <<version, result, ext, last>>
                          ELSE /\ log' = Echo(log, "echo_found")
                               /\ version' = tv
                               /\ pc' = "ldd"
                               /\ UNCHANGED <<fetchReq, result, ext, last>>

\* the requests `fetch` is called with from outside the orchestrator (it is
\* a pub fn, the body of `rye fetch`)
FetchInputs ==
    { <<"Normal", AsRequest(V312)>>, <<"Verbose", Req("cpython", 3, 13)>>,
      <<"Normal", Req("cpython", 3, 7)>> }

\* fetch(version, output) called directly
CallFetch(o, r) ==
    /\ Between
    /\ Event
    /\ pc' = "fetch"
    /\ entry' = "fetch"
    /\ output' = o
    /\ request' = NoRequest
    /\ url' = NoUrl
    /\ ret' = NoRet
    /\ fetchReq' = r
    /\ result' = NoResult
    /\ log' = <<>>
    /\ pre' = Snapshot
    /\ buffer' = NoBuffer
    /\ version' = NoVersion
    /\ UNCHANGED <<procVars, fsVars, histVars>>

\* line 388 (and 333, 350): Ok(version) handed to the caller of fetch
FetchReturn ==
    /\ pc = "ldd"
    /\ entry = "fetch"
    /\ UNCHANGED nEvents
    /\ log' = log
    /\ UNCHANGED <<procVars, fsVars, callVars, tmpVars, extChanged>>
    /\ Return(TRUE, "")

\* lines 326-353: the two "already downloaded" checks, get_download_url and
\* create_dir_all(&target_dir)
Fetch(outcome) ==
    /\ pc = "fetch"
    /\ Fault(outcome # "ok")
    /\ UNCHANGED <<procVars, selfVars, uv, shimVars, callVars, buffer, fetchReq, extChanged>>
    /\ IF IsConcrete(fetchReq) /\ fetchReq \in Catalog /\ "bin" \in py[fetchReq].files
       THEN /\ outcome = "ok"
            /\ version' = fetchReq
            /\ log' = (IF output = "Verbose" THEN Append(log, "echo_skipping") ELSE log)
            /\ pc' = "ldd"
            /\ UNCHANGED <<py, result, ext, last>>
       ELSE IF Matching(fetchReq) = {}
            THEN /\ outcome = "ok"
                 /\ UNCHANGED <<py, version, log>>
                 /\ Return(FALSE, "unknown_version")
            ELSE LET target == MaxVersion(Matching(fetchReq))
                 IN  IF py[target].dir /\ "bin" \in py[target].files
                     THEN /\ outcome = "ok"
                          /\ version' = target
                          /\ log' = (IF output = "Verbose"
                                     THEN Append(log, "echo_skipping") ELSE log)
                          /\ pc' = "ldd"
                          /\ UNCHANGED <<py, result, ext, last>>
                     ELSE \/ /\ outcome = "ok"
                             /\ py' = [py EXCEPT ![target].dir = TRUE]
                             /\ version' = target
                             /\ log' = Append(log, "mkdir_py")
                             /\ pc' = "py_download"
                             /\ UNCHANGED <<result, ext, last>>
                          \/ /\ outcome = "io_err"
                             /\ UNCHANGED <<py, version, log>>
                             /\ Return(FALSE, "mkdir")

\* line 361: download_url(url, output)?
PyDownload(d) ==
    /\ pc = "py_download"
    /\ Fault(d # GoodBytes)
    /\ log' = Append(Echo(log, "echo_downloading"), "download_py")
    /\ UNCHANGED <<procVars, fsVars, callVars, version, fetchReq, extChanged>>
    /\ IF d \in Buffers
       THEN /\ buffer' = d
            /\ pc' = "py_check"
            /\ UNCHANGED <<result, ext, last>>
       ELSE /\ buffer' = NoBuffer
            /\ Return(FALSE, "download")

\* faulty variant: the result of check_checksum is dropped
PyCheckIgnoresMismatch ==
    /\ pc = "py_check"
    /\ UNCHANGED nEvents
    /\ UNCHANGED <<procVars, fsVars, callVars, tmpVars, extChanged>>
    /\ log' = (IF PySha256(version) # NoDigest
               THEN Append(Echo(log, "echo_checking"), "check_py")
               ELSE Echo(log, "echo_checksum_skipped"))
    /\ pc' = "py_unpack"
    /\ UNCHANGED <<result, ext, last>>

\* lines 363-371: the digest is optional for interpreters
PyCheck ==
    /\ pc = "py_check"
    /\ UNCHANGED nEvents
    /\ UNCHANGED <<procVars, fsVars, callVars, tmpVars, extChanged>>
    /\ IF PySha256(version) # NoDigest
       THEN /\ log' = Append(Echo(log, "echo_checking"), "check_py")
            /\ IF check_checksum(buffer, PySha256(version))
               THEN /\ pc' = "py_unpack"
                    /\ UNCHANGED <<result, ext, last>>
               ELSE Return(FALSE, "checksum")
       ELSE /\ log' = Echo(log, "echo_checksum_skipped")
            /\ pc' = "py_unpack"
            /\ UNCHANGED <<result, ext, last>>

\* lines 376-388: unpack_archive(&archive_buffer, &target_dir, 1)
PyUnpack(written) ==
    /\ pc = "py_unpack"
    /\ Fault(written # Files)
    /\ py' = [py EXCEPT ![version] = UnpackInto(py[version], written)]
    /\ UNCHANGED <<procVars, selfVars, uv, shimVars, callVars, tmpVars, extChanged>>
    /\ LET l == Echo(log, "echo_unpacking") \o <<"unpack_py">>
                    \o (IF PySha256(version) # NoDigest
                            /\ Sha256Hex(buffer) # Lower(PySha256(version))
                        THEN <<"unverified_py">> ELSE <<>>)
                    \o (IF written \cap py[version].files # {}
                        THEN <<"clobber_py">> ELSE <<>>)
       IN  IF written = Files
           THEN /\ log' = Echo(l, "echo_downloaded")
                /\ pc' = "ldd"
                /\ UNCHANGED <<result, ext, last>>
           ELSE /\ log' = l
                /\ Return(FALSE, "unpack")

(***************************************************************************)
(* validate_shared_libraries and the environment builder                   *)
(***************************************************************************)
\* The standard output of ldd: a sequence of lines, a line a sequence of
\* tokens in which "=>" stands for the text " => " and "\t" for white space
LddFound    == <<"\t", "libc.so.6", "=>", "/lib/libc.so.6 (0x1)">>
LddVdso     == <<"\t", "linux-vdso.so.1 (0x2)">>
LddNotFound == <<"\t", "libcrypt.so.1", "=>", "not found">>
LddNotFound2 == <<"\t", "libssl.so.3", "=>", "not found", "\t">>

LddOutputs ==
    { <<>>, <<LddVdso, LddFound>>, <<LddFound, LddNotFound>>,
      <<LddNotFound2, LddNotFound>>, <<LddNotFound, LddFound, LddNotFound>> }

Whitespace == {" ", "\t"}

\* str::trim
Trim(line) ==
    LET idx == {i \in 1..Len(line) : line[i] \notin Whitespace}
    IN  IF idx = {} THEN <<>>
        ELSE SubSeq(line, CHOOSE i \in idx : \A k \in idx : i <= k,
                          CHOOSE i \in idx : \A k \in idx : i >= k)

HasArrow(line) == \E i \in 1..Len(line) : line[i] = "=>"

\* str::split_once(" => "): the text before and after the first " => "
SplitOnce(line) ==
    LET i == CHOOSE k \in 1..Len(line) :
                 line[k] = "=>" /\ \A m \in 1..(k - 1) : line[m] # "=>"
    IN  [before |-> SubSeq(line, 1, i - 1), after |-> SubSeq(line, i + 1, Len(line))]

\* faulty variant: only the first line of the output is inspected
MissingLibrariesFirstLine(out) ==
    { SplitOnce(Trim(out[i])).before :
        i \in {k \in 1..Len(out) :
                  /\ k = 1
                  /\ HasArrow(Trim(out[k]))
                  /\ SplitOnce(Trim(out[k])).after = <<"not found">>} }

\* lines 647-656: the names before " => not found", without duplicates
MissingLibraries(out) ==
    { SplitOnce(Trim(out[i])).before :
        i \in {k \in 1..Len(out) :
                  /\ HasArrow(Trim(out[k]))
                  /\ SplitOnce(Trim(out[k])).after = <<"not found">>} }

\* a line of the form NAME => not found
IsNotFoundLine(line) ==
    LET words == SelectSeq(line, LAMBDA t : t \notin Whitespace)
    IN  Len(words) = 3 /\ words[2] = "=>" /\ words[3] = "not found"

\* lines 123-126 and 641-675: ldd on the interpreter (Linux).  `spawned`
\* tells whether Command::output() could run ldd, `out` is its standard
\* output
ValidateSharedLibraries(spawned, out) ==
    /\ pc = "ldd"
    /\ entry = "orchestrator"
    /\ platform # "linux" => spawned /\ out = <<>>
    /\ ~spawned => out = <<>>
    /\ Fault(~spawned \/ MissingLibraries(out) # {})
    /\ UNCHANGED <<procVars, fsVars, callVars, tmpVars, extChanged>>
    /\ IF platform # "linux"
       THEN /\ log' = log
            /\ pc' = "venv"
            /\ UNCHANGED <<result, ext, last>>
       ELSE IF ~spawned
       THEN /\ log' = log
            /\ Return(FALSE, "ldd")
       ELSE LET l == Append(log, "ldd")
                     \o (IF \E i \in 1..Len(out) : IsNotFoundLine(out[i])
                         THEN <<"ldd_not_found">> ELSE <<>>)
            IN  IF MissingLibraries(out) = {}
                THEN /\ log' = l
                     /\ pc' = "venv"
                     /\ UNCHANGED <<result, ext, last>>
                ELSE /\ log' = Append(l, "echo_missing_libs")
                     /\ Return(FALSE, "missing_libs")

\* Uv::venv, lines 537-559: `.status()` fails only when the helper cannot be
\* spawned; the ExitStatus it returns is dropped
UvVenv(outcome) ==
    /\ pc = "venv"
    /\ Fault(outcome # "exit0")
    /\ UNCHANGED <<procVars, uv, py, shimVars, callVars, tmpVars, extChanged, toolVersion>>
    /\ \/ /\ outcome = "spawn_err"
          /\ log' = log
          /\ UNCHANGED <<selfDir, env>>
          /\ Return(FALSE, "venv")
       \/ /\ outcome = "exit0"
          /\ log' = Append(log, "venv")
          /\ selfDir' = TRUE
          /\ env' = "created"
          /\ pc' = "write_marker"
          /\ UNCHANGED <<result, ext, last>>
       \/ /\ outcome = "exit1"
          /\ log' = log \o <<"venv", "venv_nonzero">>
          /\ UNCHANGED <<selfDir, env>>
          /\ pc' = "write_marker"
          /\ UNCHANGED <<result, ext, last>>
       \/ /\ outcome = "exit1_dir"
          /\ log' = log \o <<"venv", "venv_nonzero">>
          /\ selfDir' = TRUE
          /\ env' = EmptyEnv
          /\ pc' = "write_marker"
          /\ UNCHANGED <<result, ext, last>>

\* UvWithVenv::write_marker, lines 584-586: write_venv_marker writes a file
\* inside the environment directory
WriteMarker(outcome) ==
    /\ pc = "write_marker"
    /\ Fault(outcome # "ok")
    /\ UNCHANGED <<procVars, uv, py, shimVars, callVars, tmpVars, extChanged,
                   selfDir, toolVersion>>
    /\ IF outcome = "ok" /\ selfDir
       THEN /\ UNCHANGED env
            /\ log' = Append(log, "venv_marker")
            /\ pc' = "pip"
            /\ UNCHANGED <<result, ext, last>>
       ELSE /\ UNCHANGED env
            /\ log' = log
            /\ Return(FALSE, "venv_marker")

\* UvWithVenv::update_pip, lines 594-609
UpdatePip(outcome) ==
    /\ pc = "pip"
    /\ Fault(outcome # "exit0")
    /\ UNCHANGED <<procVars, uv, py, shimVars, callVars, tmpVars, extChanged,
                   selfDir, toolVersion>>
    /\ \/ /\ outcome = "spawn_err"
          /\ UNCHANGED env
          /\ log' = log
          /\ Return(FALSE, "pip")
       \/ /\ outcome = "exit0"
          /\ UNCHANGED env
          /\ log' = Append(log, "pip")
          /\ pc' = "reqs"
          /\ UNCHANGED <<result, ext, last>>
       \/ /\ outcome = "exit1"
          /\ UNCHANGED env
          /\ log' = log \o <<"pip", "pip_nonzero">>
          /\ pc' = "reqs"
          /\ UNCHANGED <<result, ext, last>>

\* UvWithVenv::update_requirements, lines 611-630
UpdateRequirements(outcome) ==
    /\ pc = "reqs"
    /\ Fault(outcome # "exit0")
    /\ UNCHANGED <<procVars, uv, py, shimVars, callVars, tmpVars, extChanged,
                   selfDir, toolVersion>>
    /\ \/ /\ outcome \in {"tmp_err", "spawn_err"}
          /\ UNCHANGED env
          /\ log' = log
          /\ Return(FALSE, "reqs")
       \/ /\ outcome = "exit0"
          /\ env' = (IF env = "created" THEN "populated" ELSE env)
          /\ log' = Append(log, "reqs")
          /\ pc' = "shims"
          /\ UNCHANGED <<result, ext, last>>
       \/ /\ outcome = "exit1"
          /\ UNCHANGED env
          /\ log' = log \o <<"reqs", "reqs_nonzero">>
          /\ pc' = "shims"
          /\ UNCHANGED <<result, ext, last>>

(***************************************************************************)
(* Shims                                                                   *)
(***************************************************************************)
\* lines 144-147: shims/rye if it is a file, else env::current_exe()
This == IF ryeInShims THEN "shims_rye" ELSE "current_exe"

\* the shims of this platform
PlatformShims == {CoreShims(platform)[k] : k \in 1..Len(CoreShims(platform))}

\* faulty variant: the shims are installed only when shims/ had to be created
UpdateShimsOnlyIntoNewDir(mk) ==
    /\ pc = "shims"
    /\ Fault(~shimsDir /\ mk = "io_err")
    /\ UNCHANGED <<procVars, selfVars, uv, py, shim, ryeInShims, platform, linked, ryeIntact,
                   callVars,
                   tmpVars, extChanged>>
    /\ IF ~shimsDir /\ mk = "io_err"
       THEN /\ UNCHANGED shimsDir
            /\ log' = log
            /\ Return(FALSE, "shims_dir")
       ELSE /\ shimsDir' = TRUE
            /\ log' = (IF shimsDir THEN log ELSE Append(log, "mkdir_shims"))
            /\ pc' = (IF shimsDir THEN "stamp" ELSE "shim1")
            /\ UNCHANGED <<result, ext, last>>

\* lines 137-147: create shims/ and pick the executable the shims refer to
UpdateShims(mk) ==
    /\ pc = "shims"
    /\ Fault(~shimsDir /\ mk = "io_err")
    /\ UNCHANGED <<procVars, selfVars, uv, py, shim, ryeInShims, platform, linked, ryeIntact,
                   callVars,
                   tmpVars, extChanged>>
    /\ IF ~shimsDir /\ mk = "io_err"
       THEN /\ UNCHANGED shimsDir
            /\ log' = log
            /\ Return(FALSE, "shims_dir")
       ELSE /\ shimsDir' = TRUE
            /\ log' = (IF shimsDir THEN log ELSE Append(log, "mkdir_shims"))
            /\ pc' = "shim1"
            /\ UNCHANGED <<result, ext, last>>

ShimSteps == <<"shim1", "shim2", "shim3">>

\* the shim whose path the error carries when installing shim k fails
\* (line 176 passes &py_shim for the python3 shim)
ErrorShim(p, k) ==
    IF p = "linux" /\ k = 2 THEN CoreShims(p)[1] ELSE CoreShims(p)[k]

\* lines 170-177, 181-185, 197-210: one shim of update_core_shims.  `rm` is
\* the result of remove_file (dropped by .ok()), s1 and s2 tell whether the
\* first and the second strategy succeed when tried; a link cannot be made
\* where a file still is
InstallShim(k, rm, s1, s2) ==
    /\ k \in 1..Len(CoreShims(platform))
    /\ pc = ShimSteps[k]
    /\ LET name     == CoreShims(platform)[k]
           st       == Strategies(platform)
           exists   == shim[name] # "none"
           blocked  == exists /\ rm = "err"
           ok1      == s1 /\ (blocked => st[1] = "copy")
           tried2   == ~ok1 /\ Len(st) > 1
           ok2      == tried2 /\ s2 /\ (blocked => st[2] = "copy")
           won      == IF ok1 THEN st[1] ELSE st[2]
           \* fs::copy opens the shim that is still there for writing: the
           \* bytes go into the inode the old hard link shares with its target
           through  == won = "copy" /\ blocked /\ name \in linked
           l0       == IF exists
                       THEN Append(log, (IF rm = "ok" THEN "rm_" ELSE "rm_failed_") \o name)
                       ELSE log
           l1       == Append(l0, st[1] \o "_" \o name)
           l2       == IF tried2 THEN Append(l1, st[2] \o "_" \o name) ELSE l1
       IN  /\ ~exists => rm = "ok"
           /\ ~tried2 => s2
           /\ Fault(blocked \/ ~s1 \/ ~s2)
           /\ IF ok1 \/ ok2
              THEN \* the running executable cannot be opened for writing
                   /\ ~(through /\ shim[name] = "current_exe")
                   /\ shim' = [shim EXCEPT ![name] = This]
                   /\ linked' = (IF won = "hardlink" \/ through
                                 THEN linked \cup {name} ELSE linked \ {name})
                   \* a copy of shims/rye onto its own inode truncates it
                   /\ ryeIntact' = (ryeIntact /\ ~(through /\ shim[name] = "shims_rye"
                                                   /\ ryeInShims))
                   /\ log' = Append(l2, "shim_" \o name)
                   /\ pc' = (IF k = Len(CoreShims(platform)) THEN "stamp"
                             ELSE ShimSteps[k + 1])
                   /\ UNCHANGED <<result, ext, last>>
              ELSE /\ shim' = [shim EXCEPT ![name] = IF blocked THEN shim[name] ELSE "none"]
                   /\ linked' = (IF blocked THEN linked ELSE linked \ {name})
                   /\ UNCHANGED ryeIntact
                   /\ log' = Append(l2, "shim_failed")
                   /\ Return(FALSE, "shim@" \o ErrorShim(platform, k))
    /\ UNCHANGED <<procVars, selfVars, uv, py, shimsDir, ryeInShims, platform, callVars,
                   tmpVars, extChanged>>

(***************************************************************************)
(* The marker and the forced flag                                          *)
(***************************************************************************)
\* what a failed fs::write can leave behind: nothing, an empty file or a
\* prefix of the content
TornWrites == {NoFile, <<"1">>}

\* UvWithVenv::write_tool_version, lines 632-637
WriteToolVersion(outcome, torn) ==
    /\ pc = "stamp"
    /\ Fault(outcome # "ok")
    /\ UNCHANGED <<procVars, uv, py, shimVars, callVars, tmpVars, selfDir, env>>
    /\ IF outcome = "ok" /\ selfDir
       THEN /\ torn = NoFile
            /\ toolVersion' = U64ToString(SELF_VERSION)
            /\ log' = Append(log, "stamp")
            /\ extChanged' = FALSE
            /\ pc' = "force"
            /\ UNCHANGED <<result, ext, last>>
       ELSE /\ toolVersion' = (IF selfDir THEN torn ELSE NoFile)
            /\ log' = log
            /\ UNCHANGED extChanged
            /\ Return(FALSE, "tool_version")

\* lines 154-156
SetForced ==
    /\ pc = "force"
    /\ UNCHANGED nEvents
    /\ forced' = TRUE
    /\ log' = log
    /\ UNCHANGED <<upToUpdate, tuiVars, fsVars, callVars, tmpVars, extChanged>>
    /\ Return(TRUE, "")

(***************************************************************************)
(* download_url and download_url_ignore_404                                *)
(***************************************************************************)
HttpsPrefix == <<"h", "t", "t", "p", "s", ":", "/", "/">>

\* urls the two functions are called with, as sequences of characters
Urls ==
    { HttpsPrefix \o <<"a">>,
      HttpsPrefix,
      <<"h", "t", "t", "p", ":", "/", "/", "a">>,
      <<"H", "T", "T", "P", "S", ":", "/", "/", "a">>,
      <<"h", "t", "t", "p", "s", ":", "/", "a">>,
      <<" ">> \o HttpsPrefix \o <<"a">>,
      <<"f", "t", "p", ":", "/", "/", "a">>,
      <<>> }

\* faulty variant: only the first four characters are compared
StartsWithFirstFour(s, p) ==
    Len(s) >= 4 /\ SubSeq(s, 1, 4) = SubSeq(p, 1, 4)

\* str::starts_with
StartsWith(s, p) == Len(s) >= Len(p) /\ SubSeq(s, 1, Len(p)) = p

DownloadFns == {"download_url", "download_url_ignore_404"}

\* status codes of the final response
ResponseCodes == {100, 199, 200, 204, 299, 300, 304, 403, 404, 500}

\* the chunks curl hands to write_function
Bodies == { <<>>, <<"ab">>, <<"a", "bc">> }

\* write_archive.write_all(data) for every chunk
RECURSIVE Accumulate(_)
Accumulate(chunks) ==
    IF chunks = <<>> THEN "" ELSE Head(chunks) \o Accumulate(Tail(chunks))

\* faulty variant: 300 counts as success
ResponseClassUpTo300(code) ==
    IF code = 404 THEN "none"
    ELSE IF ~(200 <= code /\ code <= 300) THEN "error"
    ELSE "some"

\* lines 459-465: 404, then !(200..300).contains(&code)
ResponseClass(code) ==
    IF code = 404 THEN "none"
    ELSE IF ~(200 <= code /\ code < 300) THEN "error"
    ELSE "some"

\* download_url(url, output) or download_url_ignore_404(url, output)
CallDownload(f, u, o) ==
    /\ Between
    /\ Event
    /\ pc' = "dl_scheme"
    /\ entry' = f
    /\ output' = o
    /\ request' = NoRequest
    /\ url' = u
    /\ ret' = NoRet
    /\ result' = NoResult
    /\ log' = <<>>
    /\ pre' = Snapshot
    /\ buffer' = NoBuffer
    /\ version' = NoVersion
    /\ fetchReq' = NoRequest
    /\ UNCHANGED <<procVars, fsVars, histVars>>

\* lines 399-402: for now we only allow HTTPS downloads
DlCheckScheme ==
    /\ pc = "dl_scheme"
    /\ UNCHANGED nEvents
    /\ log' = log
    /\ UNCHANGED <<procVars, fsVars, callVars, tmpVars, extChanged>>
    /\ IF ~StartsWith(url, HttpsPrefix)
       THEN Return(FALSE, "Refusing insecure download")
       ELSE /\ pc' = "dl_setup"
            /\ UNCHANGED <<result, ext, last>>

\* lines 404-422: Config::current(), the curl handle and the proxy.
\* `proxy` tells whether an https proxy is configured, `ok` whether every
\* curl option could be set
DlSetup(proxy, ok) ==
    /\ pc = "dl_setup"
    /\ Fault(~ok)
    /\ UNCHANGED <<procVars, fsVars, callVars, tmpVars, extChanged>>
    /\ IF ok
       THEN /\ log' = log \o <<"config", "proxy_lookup">>
                          \o (IF proxy THEN <<"set_proxy">> ELSE <<>>)
            /\ pc' = "dl_perform"
            /\ UNCHANGED <<result, ext, last>>
       ELSE /\ log' = Append(log, "config")
            /\ Return(FALSE, "curl")

\* lines 424-466 and 391-396: the transfer, then the response code.
\* `done` tells whether perform() returned Ok
DlPerform(done, code, body) ==
    /\ pc = "dl_perform"
    /\ Fault(~done \/ ResponseClass(code) # "some")
    /\ UNCHANGED <<procVars, fsVars, entry, output, request, pre, url, version,
                   fetchReq, extChanged>>
    /\ buffer' = Accumulate(body)
    /\ LET l == Append(log, "transfer") \o [i \in 1..Len(body) |-> "recv_" \o body[i]]
       IN  IF ~done
           THEN /\ log' = l
                /\ ret' = NoRet
                /\ Return(FALSE, "download failed")
           ELSE /\ log' = Append(l, "response_" \o ToString(code))
                /\ IF ResponseClass(code) = "none"
                   THEN /\ ret' = NoRet
                        /\ IF entry = "download_url_ignore_404"
                           THEN Return(TRUE, "")
                           ELSE Return(FALSE, "Failed to download: 404 not found")
                   ELSE IF ResponseClass(code) = "error"
                   THEN /\ ret' = NoRet
                        /\ Return(FALSE, "Failed to download: " \o ToString(code))
                   ELSE /\ ret' = [some |-> TRUE, bytes |-> buffer']
                        /\ Return(TRUE, "")

(***************************************************************************)
(* The environment of the orchestrator: other programs and the user        *)
(* change the app directory between calls, and the process is restarted.   *)
(***************************************************************************)
Reset ==
    /\ pc' = "idle"
    /\ result' = NoResult
    /\ log' = <<>>
    /\ pre' = NoPre
    /\ buffer' = NoBuffer
    /\ version' = NoVersion
    /\ fetchReq' = NoRequest
    /\ entry' = "orchestrator"
    /\ output' = "Normal"
    /\ request' = NoRequest
    /\ url' = NoUrl
    /\ ret' = NoRet

NoteExt(e) == ext' = (IF ext = "none" THEN e ELSE "other")

ExtDeleteMarker ==
    /\ Between
    /\ Event
    /\ selfDir /\ toolVersion # NoFile
    /\ toolVersion' = NoFile
    /\ NoteExt("del_marker")
    /\ extChanged' = TRUE
    /\ Reset
    /\ UNCHANGED <<procVars, selfDir, env, uv, py, shimVars, last>>

ExtDeleteSelf ==
    /\ Between
    /\ Event
    /\ selfDir
    /\ selfDir' = FALSE
    /\ toolVersion' = NoFile
    /\ env' = EmptyEnv
    /\ NoteExt("del_self")
    /\ extChanged' = TRUE
    /\ Reset
    /\ UNCHANGED <<procVars, uv, py, shimVars, last>>

ExtWriteMarker(c) ==
    /\ Between
    /\ Event
    /\ selfDir /\ toolVersion # c
    /\ toolVersion' = c
    /\ NoteExt("write_marker")
    /\ extChanged' = TRUE
    /\ Reset
    /\ UNCHANGED <<procVars, selfDir, env, uv, py, shimVars, last>>

\* rye is installed into (or removed from) the shims folder
ExtInstallRye ==
    /\ Between
    /\ Event
    /\ ryeInShims' = ~ryeInShims
    /\ ryeIntact' = TRUE
    /\ shimsDir' = TRUE
    /\ Reset
    /\ UNCHANGED <<procVars, selfVars, uv, py, shim, platform, linked, histVars>>

\* a new process: the statics start over (lines 61 and 64)
NewProcess ==
    /\ Between
    /\ Event
    /\ upToUpdate # "unset" \/ forced
    /\ upToUpdate' = "unset"
    /\ forced' = FALSE
    /\ ECHO_STATE' = STDOUT
    /\ guards' = <<>>
    /\ tui' = NoTui
    /\ extChanged' = FALSE
    /\ Reset
    /\ UNCHANGED <<fsVars, ext, last>>

\* the steps of a call in progress
Steps ==
    \/ CheckVenvDir
    \/ \E outcome \in {"ok", "err", "err_partial"} : RemoveSelf(outcome)
    \/ EnsureUv
    \/ \E d \in DownloadOutcomes : UvDownload(d)
    \/ UvCheck
    \/ \E written \in UnpackOutcomes, ok \in BOOLEAN : UvUnpack(written, ok)
    \/ Toolchain
    \/ \E outcome \in {"ok", "io_err"} : Fetch(outcome)
    \/ \E d \in DownloadOutcomes : PyDownload(d)
    \/ PyCheck
    \/ \E written \in UnpackOutcomes : PyUnpack(written)
    \/ \E spawned \in BOOLEAN, out \in LddOutputs : ValidateSharedLibraries(spawned, out)
    \/ \E outcome \in {"spawn_err", "exit0", "exit1", "exit1_dir"} : UvVenv(outcome)
    \/ \E outcome \in {"ok", "io_err"} : WriteMarker(outcome)
    \/ \E outcome \in {"spawn_err", "exit0", "exit1"} : UpdatePip(outcome)
    \/ \E outcome \in {"tmp_err", "spawn_err", "exit0", "exit1"} : UpdateRequirements(outcome)
    \/ \E mk \in {"ok", "io_err"} : UpdateShims(mk)
    \/ \E k \in 1..3, rm \in {"ok", "err"}, s1 \in BOOLEAN, s2 \in BOOLEAN :
           InstallShim(k, rm, s1, s2)
    \/ \E outcome \in {"ok", "io_err"}, torn \in TornWrites : WriteToolVersion(outcome, torn)
    \/ SetForced

Next ==
    \/ \E a \in CallInputs : Call(a[1], a[2])
    \/ Steps
    \/ ExtDeleteMarker
    \/ ExtDeleteSelf
    \/ \E c \in MarkerInputs : ExtWriteMarker(c)
    \/ NewProcess

Spec == Init /\ [][Next]_vars

\* the orchestrator together with direct calls of fetch
NextFetch ==
    \/ \E r \in {NoRequest, Req("cpython", 3, 11)} : Call("Normal", r)
    \/ Steps
    \/ ExtDeleteSelf
    \/ \E a \in FetchInputs : CallFetch(a[1], a[2])
    \/ FetchReturn

SpecFetch == Init /\ [][NextFetch]_vars

\* the orchestrator built for each platform, with rye installed into or
\* removed from the shims folder between calls
InitPlatforms == InitApp /\ platform \in Platforms

\* the calls made there: `rye self install` style calls without a request
PlatformInputs == {<<"Normal", NoRequest>>, <<"Quiet", NoRequest>>}

NextPlatforms ==
    \/ \E a \in PlatformInputs : Call(a[1], a[2])
    \/ Steps
    \/ ExtDeleteSelf
    \/ ExtInstallRye

SpecPlatforms == InitPlatforms /\ [][NextPlatforms]_vars

\* the orchestrator called in every output mode with and without a request, the
\* marker changed from outside and the process restarted
NextModes ==
    \/ \E o \in Outputs, r \in {NoRequest, Req("cpython", 3, 13)} : Call(o, r)
    \/ Steps
    \/ ExtDeleteMarker
    \/ \E c \in MarkerInputs : ExtWriteMarker(c)
    \/ NewProcess

SpecModes == Init /\ [][NextModes]_vars

\* the orchestrator called with and without a request, nothing else changing
\* the app directory
NextRequests ==
    \/ \E r \in Requests : Call("Normal", r)
    \/ Steps

SpecRequests == Init /\ [][NextRequests]_vars

\* the two download functions called on their own
NextDownload ==
    \/ \E f \in DownloadFns, u \in Urls, o \in Outputs : CallDownload(f, u, o)
    \/ DlCheckScheme
    \/ \E proxy \in BOOLEAN, ok \in BOOLEAN : DlSetup(proxy, ok)
    \/ \E done \in BOOLEAN, code \in ResponseCodes, body \in Bodies :
           DlPerform(done, code, body)

SpecDownload == Init /\ [][NextDownload]_vars

\* the echo state of one process under any calls, drops and echoes
SpecTui == Init /\ [][NextTui]_vars

TypeOK ==
    /\ pc \in {"idle", "returned", "check", "remove", "uv", "uv_download", "uv_check",
               "uv_unpack", "toolchain", "fetch", "py_download", "py_check",
               "py_unpack", "ldd", "venv", "write_marker", "pip", "reqs", "shims",
               "shim1", "shim2", "shim3",
               "stamp", "force", "dl_scheme", "dl_setup", "dl_perform"}
    /\ upToUpdate \in {"unset", "true", "false"}
    /\ forced \in BOOLEAN
    /\ selfDir \in BOOLEAN
    /\ ~selfDir => toolVersion = NoFile /\ env = EmptyEnv

(***************************************************************************)
(* Vocabulary of the properties                                            *)
(***************************************************************************)
Returned == pc = "returned"

InCall == pc # "idle"

\* file-system writes and removals, downloads and helper invocations
EffectEvents ==
    {"remove_self", "remove_self_failed", "download_uv", "unpack_uv", "clobber_uv",
     "unverified_uv", "mkdir_py", "download_py", "unpack_py", "clobber_py",
     "unverified_py", "venv", "venv_marker",
     "pip", "reqs", "mkdir_shims", "shim_failed", "stamp"}
    \cup {pfx \o n : pfx \in {"shim_", "rm_", "rm_failed_", "hardlink_", "copy_", "symlink_"},
                      n \in ShimNames}

NoEffects == \A i \in 1..Len(log) : log[i] \notin EffectEvents

SelfUntouched ==
    /\ selfDir = pre.selfDir
    /\ toolVersion = pre.toolVersion
    /\ env = pre.env

\* the buffer in memory hashes to the digest
BufferMatches(digest) == Sha256Hex(buffer) = Lower(digest)

\* the call took the provisioning path: it did not return the existing self/
Reprovisioned ==
    /\ result.ok => Has("stamp")
    /\ ~result.ok => Has("provision") \/ result.err = "remove_self"
    /\ pre.selfDir => Has("remove_self") \/ result.err = "remove_self"

(***************************************************************************)
(* C1                                                                      *)
(***************************************************************************)
\* C1 as stated: whenever the orchestrator returns Ok, self/tool-version.txt
\* exists and parses to SELF_VERSION at that moment, also after external
\* changes to the app directory made earlier in the same process.
C1_OkImpliesMarker ==
    (Returned /\ result.ok) => MarkerCurrent(selfDir, toolVersion)

\* C1 amended: whenever the orchestrator returns Ok, tool-version.txt exists
\* and parses to SELF_VERSION, unless self/ or the marker was changed from
\* outside after this process last found the marker current (the read that
\* fills its cache) or stamped it.
C1_OkImpliesMarkerUnlessExternal ==
    (Returned /\ result.ok /\ ~extChanged) => MarkerCurrent(selfDir, toolVersion)

\* an early return in a restarted process, decided by reading the marker
C1_Witness ==
    /\ Returned /\ result.ok /\ ~extChanged
    /\ ~Has("provision") /\ upToUpdate = "true" /\ ~forced

(***************************************************************************)
(* C2                                                                      *)
(***************************************************************************)
\* C2: a second call made right after a call that returned Ok, with nothing
\* changed in between, returns Ok (the same self/ path) from the staleness
\* check and performs no file-system write, removal, download or helper
\* invocation.
C2_SecondCallIsNoOp ==
    (InCall /\ pre.b2b /\ pre.prevOk) =>
        /\ pc \in {"check", "returned"}
        /\ NoEffects
        /\ Returned => result.ok
        /\ SelfUntouched /\ uv = pre.uv /\ py = pre.py /\ shim = pre.shim

\* the second call after a provisioning run that followed a stale marker
C2_Witness ==
    /\ Returned /\ pre.b2b /\ pre.prevOk /\ result.ok
    /\ forced /\ upToUpdate = "false"

(***************************************************************************)
(* C3                                                                      *)
(***************************************************************************)
\* C3 as stated: after a successful bootstrap, deleting tool-version.txt
\* only, or self/ entirely, makes the next call rebuild the environment, in
\* every process, also one whose cache or forced flag is already true.
C3_RestartSafetyEveryProcess ==
    (Returned /\ pre.last = "ok" /\ pre.ext \in {"del_marker", "del_self"})
        => Reprovisioned

\* C3 amended: after a successful bootstrap, deleting self/ entirely makes
\* the next call take the provisioning path in every process; deleting only
\* tool-version.txt does so when the call is made in a process whose
\* staleness cache and forced flag are not already true (a new process).
C3_RestartSafety ==
    (/\ Returned
     /\ pre.last = "ok"
     /\ \/ pre.ext = "del_self"
        \/ pre.ext = "del_marker" /\ ~pre.cacheTrue)
        => Reprovisioned

\* marker deleted, process restarted, environment rebuilt and stamped
C3_Witness ==
    /\ Returned /\ pre.last = "ok" /\ pre.ext = "del_marker" /\ ~pre.cacheTrue
    /\ result.ok /\ Before("remove_self", "stamp")

(***************************************************************************)
(* C4                                                                      *)
(***************************************************************************)
\* a step of the provisioning run failed: the call returned an error, or a
\* helper invocation (venv, pip upgrade, requirements install) exited with
\* a non-zero status
StepFailed ==
    /\ Has("provision")
    /\ \/ ~result.ok
       \/ Has("venv_nonzero") \/ Has("pip_nonzero") \/ Has("reqs_nonzero")

\* C4: when a step of a provisioning run fails before the stamp,
\* tool-version.txt does not parse to SELF_VERSION after the call, and the
\* next call provisions from scratch (removing a leftover self/) instead of
\* returning the existing directory.
C4_FailedRunIsRetried ==
    /\ (Returned /\ StepFailed) => ~MarkerCurrent(selfDir, toolVersion)
    /\ (Returned /\ pre.last = "failed_prov" /\ pre.ext = "none")
           => Reprovisioned

(***************************************************************************)
(* C5                                                                      *)
(***************************************************************************)
HelperPresent == IsInstalled(uv)

InterpreterPresent == version # NoVersion /\ IsInstalled(py[version])

EnvironmentPresent == selfDir /\ env # "none"

ShimsPresent == shimsDir /\ \A n \in PlatformShims : shim[n] = This

\* C5: within a provisioning run the artifacts appear in the order helper,
\* interpreter, environment, shims, marker: no later artifact of the run is
\* present while an earlier one is missing.
C5_TotalOrderOfArtifacts ==
    InCall =>
        /\ Has("stamp") => ShimsPresent
        /\ Has("shim_python3") => EnvironmentPresent
        /\ Has("venv") => InterpreterPresent
        /\ version # NoVersion /\ pc # "py_download" /\ pc # "py_check"
               /\ pc # "py_unpack" /\ ~(Returned /\ ~result.ok)
               => InterpreterPresent /\ HelperPresent

(***************************************************************************)
(* C6                                                                      *)
(***************************************************************************)
Unsupported(r) ==
    /\ r # NoRequest
    /\ HasLatest(r)
    /\ LET v == latest_available_python_version(r)
       IN  ~(v.name = "cpython" /\ v.major = 3 /\ v.minor >= 9 /\ v.minor <= 12)

HelperErrors == {"download", "checksum", "unpack", "uv_missing"}

\* C6 as stated: a call with a request whose latest match is not
\* self-compatible fails with the unsupported-toolchain error and leaves
\* self/ untouched, whatever the prior state of self/ (the helper being
\* available and no file-system operation failing).
C6_UnsupportedAlwaysRejected ==
    (Returned /\ Unsupported(request)
        /\ result.err \notin HelperErrors \cup {"remove_self"})
        => /\ ~result.ok
           /\ result.err = "unsupported"
           /\ SelfUntouched

\* C6 amended: a call with such a request never provisions an interpreter
\* or an environment.  When self/ is absent it fails (with the unsupported-
\* toolchain error once the helper is available) and self/ stays absent;
\* when self/ is a directory and is_up_to_date() holds it returns Ok without
\* looking at the request and without any effect; when self/ is a directory
\* and not up to date, self/ is removed before the request is rejected.
C6_UnsupportedRejectedAfterStalenessCheck ==
    (Returned /\ Unsupported(request)) =>
        /\ ~Has("mkdir_py") /\ ~Has("download_py") /\ ~Has("venv") /\ ~Has("stamp")
        /\ result.ok => pre.selfDir /\ NoEffects /\ SelfUntouched
        /\ ~result.ok => result.err \in HelperErrors \cup {"unsupported", "remove_self"}
        /\ result.err = "unsupported" =>
               /\ ~selfDir
               /\ pre.selfDir => Has("remove_self")
        /\ ~pre.selfDir => ~result.ok /\ SelfUntouched

\* a stale self/ was removed before the request was rejected
C6_Witness ==
    /\ Returned /\ Unsupported(request)
    /\ result.err = "unsupported" /\ pre.selfDir /\ ~selfDir

(***************************************************************************)
(* C7                                                                      *)
(***************************************************************************)
\* C7: when the helper exits with a non-zero status from `venv --python
\* <bin> <venv_dir>`, no later step (venv marker, pip upgrade, requirements
\* install, shims) runs, tool-version.txt is not stamped and the call does
\* not return Ok.
C7_VenvExitStatusIsFatal ==
    Has("venv_nonzero") =>
        /\ ~Has("venv_marker") /\ ~Has("pip") /\ ~Has("reqs")
        /\ ~Has("shim_python") /\ ~Has("stamp")
        /\ ~(Returned /\ result.ok)

(***************************************************************************)
(* C8                                                                      *)
(***************************************************************************)
HasDigest(v) == v # NoVersion /\ v # V311

\* the archive in memory is unpacked only after its digest was checked
\* and matched; a mismatch ends the call with the checksum error
VerifiedBeforeUnpack ==
    /\ Has("unpack_uv") => Before("check_uv", "unpack_uv") /\ ~Has("unverified_uv")
    /\ (Has("unpack_py") /\ HasDigest(version))
           => Before("check_py", "unpack_py") /\ ~Has("unverified_py")
    /\ (Has("check_uv") /\ pc \in {"uv_unpack", "returned"} /\ ~Has("unpack_uv")
            /\ ~BufferMatches(UvSha256))
           => Returned /\ result.err = "checksum" /\ uv = pre.uv
    /\ (Has("check_py") /\ ~BufferMatches(<<"a", "1">>))
           => Returned /\ result.err = "checksum" /\ ~Has("unpack_py")

\* C8 as stated: no archive is unpacked before its digest was verified; on a
\* digest mismatch the call fails with the checksum error, nothing of the
\* archive is written and py/<version>/ is empty or absent.
C8_MismatchLeavesDirEmpty ==
    /\ VerifiedBeforeUnpack
    /\ (Has("check_py") /\ ~BufferMatches(<<"a", "1">>))
           => py[version].files = {}

\* C8 amended: no archive is unpacked before its digest was verified; on a
\* digest mismatch the call fails with the checksum error and nothing of the
\* archive is written: py/<version>/ holds what it held before the call
\* (files an earlier failed unpack left there, if any) and is otherwise
\* empty.
C8_MismatchWritesNothing ==
    /\ VerifiedBeforeUnpack
    /\ (Has("check_py") /\ ~BufferMatches(<<"a", "1">>))
           => py[version].files = pre.py[version].files

\* an interpreter download whose bytes do not match the catalog digest
C8_Witness ==
    /\ Returned /\ result.err = "checksum"
    /\ Has("check_py") /\ ~BufferMatches(<<"a", "1">>)
    /\ py[version].dir /\ py[version].files = {}

(***************************************************************************)
(* C9                                                                      *)
(***************************************************************************)
\* scenario S5: empty app directory, ensure_self_venv(Normal), the
\* interpreter's bytes do not hash to the catalog digest
ScenarioS5 ==
    /\ pre.emptyApp /\ request = NoRequest /\ output = "Normal"
    /\ Has("check_py") /\ ~BufferMatches(<<"a", "1">>)

C10_WriteOnce ==
    InCall =>
        /\ ~Has("clobber_py") /\ ~Has("clobber_uv")
        /\ pre.uv.files \subseteq uv.files
        /\ \A v \in Catalog : pre.py[v].files \subseteq py[v].files

\* C10 amended: the files of an installed version (directory and executable
\* present) are never written again and no file under py/ or uv/ is ever
\* removed; a version directory that a failed download or unpack left
\* without its executable is unpacked into again by the next run, which
\* overwrites the files already there.
C10_InstalledIsWriteOnce ==
    InCall =>
        /\ IsInstalled(pre.uv) => uv = pre.uv /\ ~Has("unpack_uv")
        /\ \A v \in Catalog : IsInstalled(pre.py[v]) => py[v] = pre.py[v]
        /\ Has("clobber_uv") => ~IsInstalled(pre.uv)
        /\ Has("clobber_py") => ~IsInstalled(pre.py[version])
        /\ pre.uv.files \subseteq uv.files
        /\ \A v \in Catalog : pre.py[v].files \subseteq py[v].files

\* a provisioning run that found helper and interpreter installed
C10_Witness ==
    /\ Returned /\ result.ok /\ Has("stamp")
    /\ IsInstalled(pre.uv) /\ IsInstalled(pre.py[V312]) /\ version = V312

(***************************************************************************)
(* C11                                                                     *)
(***************************************************************************)
\* the orchestrator is past Uv::ensure_exists
PastEnsureUv == entry = "orchestrator" /\ Has("provision") /\ pc # "uv"

\* C11: a helper or an interpreter counts as installed iff its directory
\* and its executable both exist.  Uv::ensure_exists and fetch skip the
\* download exactly then; otherwise they download, verify and unpack, in
\* that order; and Uv::ensure_exists fails when the binary is still absent
\* after unpacking.
C11_InstalledIffDirAndExecutable ==
    /\ PastEnsureUv =>
           ((pre.uv.dir /\ "bin" \in pre.uv.files) <=>
                ~(pc \in {"uv_download", "uv_check", "uv_unpack"} \/ Has("download_uv")))
    /\ version # NoVersion =>
           ((pre.py[version].dir /\ "bin" \in pre.py[version].files) <=>
                ~Has("mkdir_py"))
    /\ Has("mkdir_py") /\ pc \in {"ldd", "venv"} =>
           /\ Before("download_py", "unpack_py")
           /\ PySha256(version) # NoDigest => Before("check_py", "unpack_py")
    /\ PastEnsureUv /\ Has("download_uv") /\ pc \notin {"uv_download", "uv_check", "uv_unpack", "returned"} =>
           /\ Before("download_uv", "check_uv") /\ Before("check_uv", "unpack_uv")
           /\ uv.dir /\ "bin" \in uv.files
    /\ Returned /\ Has("unpack_uv") /\ "bin" \notin uv.files =>
           ~result.ok /\ result.err \in {"unpack", "uv_missing"}

\* a direct fetch of an installed version returned it without a download
C11_Witness ==
    /\ Returned /\ entry = "fetch" /\ result.ok
    /\ version = V312 /\ pre.py[V312] = [dir |-> TRUE, files |-> Files]
    /\ ~Has("mkdir_py") /\ ~Has("download_py")

(***************************************************************************)
(* C12: shims are never stale                                              *)
(***************************************************************************)
RemovedFirst(n) == Before("rm_" \o n, "shim_" \o n)

RemovalAttemptedFirst(n) ==
    Before("rm_" \o n, "shim_" \o n) \/ Before("rm_failed_" \o n, "shim_" \o n)

\* C12 as stated: in every state in which an orchestrator call has returned
\* Ok, every installed core shim is the executable chosen as target
\* (shims/rye if it is a file, else the running executable), and a shim file
\* that existed before the call was removed before the new one was installed
C12_ShimsNeverStale ==
    (Returned /\ entry = "orchestrator" /\ result.ok) =>
        \A n \in PlatformShims :
            shim[n] # "none" =>
                /\ shim[n] = This
                /\ (pre.shim[n] # "none" /\ Has("shim_" \o n)) => RemovedFirst(n)

\* C12 amended: when an orchestrator call that went past the staleness check
\* has returned Ok, every core shim of the platform is installed and is the
\* executable chosen as target, and the removal of a shim file that existed
\* before the call was attempted (its error ignored) before the new one was
\* installed
C12_ShimsCurrentAfterInstall ==
    (Returned /\ entry = "orchestrator" /\ result.ok /\ Has("provision")) =>
        \A n \in PlatformShims :
            /\ shim[n] = This
            /\ Has("shim_" \o n)
            /\ pre.shim[n] # "none" => RemovalAttemptedFirst(n)

\* on Windows a call replaces the shims of the running executable by shims
\* of shims/rye, the last of them by the hardlink fallback
C12_Witness ==
    /\ Returned /\ entry = "orchestrator" /\ result.ok
    /\ platform = "windows"
    /\ pre.shim["pythonw.exe"] = "current_exe"
    /\ \A n \in PlatformShims : shim[n] = "shims_rye"
    /\ Before("rm_pythonw.exe", "hardlink_pythonw.exe")
    /\ Before("hardlink_pythonw.exe", "shim_pythonw.exe")

(***************************************************************************)
(* C13: the strategies of update_core_shims and its error                  *)
(***************************************************************************)
Attempted(n) == \E st \in {"hardlink", "copy", "symlink"} : Has(st \o "_" \o n)

\* the attempts made for shim n are the platform's strategies, in order,
\* after the removal of a pre-existing file
InStrategyOrder(n) ==
    LET st == Strategies(platform)
    IN  /\ \A x \in {"hardlink", "copy", "symlink"} :
               Has(x \o "_" \o n) => \E i \in 1..Len(st) : st[i] = x
        /\ Attempted(n) => Has(st[1] \o "_" \o n)
        /\ Len(st) > 1 /\ Has(st[2] \o "_" \o n) =>
               Before(st[1] \o "_" \o n, st[2] \o "_" \o n)
        /\ pre.shim[n] # "none" /\ Attempted(n) =>
               \/ Before("rm_" \o n, st[1] \o "_" \o n)
               \/ Before("rm_failed_" \o n, st[1] \o "_" \o n)

\* C13: in every state of an orchestrator call, each shim's attempts follow
\* the removal of the pre-existing file and the platform's strategy order;
\* and when the call has failed because every strategy for a shim failed,
\* the error carries the path of that shim and no later shim was attempted
C13_ShimFailureNamesItsShim ==
    entry = "orchestrator" =>
        /\ \A n \in ShimNames : InStrategyOrder(n)
        /\ (Returned /\ Has("shim_failed")) =>
               \A k \in 1..Len(CoreShims(platform)) :
                   LET n == CoreShims(platform)[k]
                   IN  (Attempted(n) /\ ~Has("shim_" \o n)) =>
                           /\ ~result.ok
                           /\ result.err = "shim@" \o n
                           /\ \A j \in (k + 1)..Len(CoreShims(platform)) :
                                  ~Attempted(CoreShims(platform)[j])

(***************************************************************************)
(* C14: the interpreter chosen without a request                           *)
(***************************************************************************)
\* the interpreters installed when the call started that are cpython 3.9
\* to 3.12
InstalledCompatible ==
    {v \in Catalog : /\ pre.py[v].dir /\ "bin" \in pre.py[v].files
                     /\ v.name = "cpython" /\ v.major = 3
                     /\ v.minor >= 9 /\ v.minor <= 12}

\* a call without a request has made its choice
ChoiceMade ==
    /\ entry = "orchestrator"
    /\ request = NoRequest
    /\ version # NoVersion \/ fetchReq # NoRequest

\* C14: once an orchestrator call without a request has chosen, then if
\* some installed interpreter is self-compatible the chosen version is one
\* of them and none of them is greater, and the call creates, downloads and
\* unpacks no interpreter; otherwise it fetches the request cpython 3.12
C14_LatestInstalledCompatible ==
    ChoiceMade =>
        IF InstalledCompatible # {}
        THEN /\ version \in InstalledCompatible
             /\ \A w \in InstalledCompatible : ~VersionLess(version, w)
             /\ fetchReq = NoRequest
             /\ ~Has("mkdir_py") /\ ~Has("download_py") /\ ~Has("unpack_py")
             /\ py = pre.py
        ELSE /\ fetchReq = [name |-> "cpython", major |-> 3, minor |-> 12, patch |-> -1]
             /\ version # NoVersion =>
                    version.name = "cpython" /\ version.major = 3 /\ version.minor = 12

\* with 3.11, 3.12 and 3.13 installed, a call without a request chooses 3.12
\* and succeeds
C14_Witness ==
    /\ ChoiceMade /\ Returned /\ result.ok
    /\ {V311, V312} \subseteq InstalledCompatible
    /\ pre.py[V313].dir /\ "bin" \in pre.py[V313].files
    /\ version = V312

(***************************************************************************)
(* C15: the window of self-compatible interpreters                         *)
(***************************************************************************)
MaxMinor == 14

\* interpreter versions around the window
VersionInputs ==
    [name : {"cpython", "pypy"}, major : {2, 3, 4}, minor : 0..MaxMinor, patch : {0, 7}]

InWindow(v) == v.name = "cpython" /\ v.major = 3 /\ 9 <= v.minor /\ v.minor <= 12

WindowIsExact ==
    /\ \A v \in VersionInputs \cup Catalog : is_self_compatible_toolchain(v) <=> InWindow(v)
    /\ ~is_self_compatible_toolchain(V38)
    /\ ~is_self_compatible_toolchain(V313)

\* the request of the call resolves to 3.8 or to 3.13
ResolvesOutsideWindow ==
    /\ entry = "orchestrator"
    /\ request # NoRequest
    /\ HasLatest(request)
    /\ latest_available_python_version(request) \in {V38, V313}

\* C15 as stated: is_self_compatible_toolchain is true exactly of cpython
\* 3.9 to 3.12, and an orchestrator call whose request resolves to 3.8 or
\* 3.13 fails with the unsupported-toolchain error (the helper being
\* available and self/ removable)
C15_OutsideWindowAlwaysFails ==
    /\ WindowIsExact
    /\ (Returned /\ ResolvesOutsideWindow
           /\ result.err \notin HelperErrors \cup {"remove_self"})
          => ~result.ok /\ result.err = "unsupported"

\* C15 amended: is_self_compatible_toolchain is true exactly of cpython 3.9
\* to 3.12, and an orchestrator call whose request resolves to 3.8 or 3.13
\* fails with the unsupported-toolchain error when it gets past the
\* staleness check (the helper being available and self/ removable); a call
\* that finds self/ up to date returns Ok without looking at the request
C15_OutsideWindowFailsPastStalenessCheck ==
    /\ WindowIsExact
    /\ (Returned /\ ResolvesOutsideWindow) =>
          /\ (Has("provision") /\ result.err \notin HelperErrors)
                 => ~result.ok /\ result.err = "unsupported"
          /\ result.ok => (~Has("provision") /\ pre.selfDir /\ NoEffects)
          /\ ~result.ok => result.err \in HelperErrors \cup {"remove_self", "unsupported"}

\* on an empty app directory a request for 3.8 is rejected once the helper
\* is installed
C15_Witness ==
    /\ Returned /\ ResolvesOutsideWindow
    /\ request = Req("cpython", 3, 8)
    /\ ~pre.selfDir /\ pre.emptyApp
    /\ IsInstalled(uv)
    /\ result.err = "unsupported"

(***************************************************************************)
(* C16: scenario S2                                                        *)
(***************************************************************************)
\* the call started in a process that had not yet read the marker, with
\* self/ a directory and tool-version.txt holding SELF_VERSION
ScenarioS2 ==
    /\ entry = "orchestrator"
    /\ InCall
    /\ pre.lazyUnset
    /\ MarkerCurrent(pre.selfDir, pre.toolVersion)

\* C16: in scenario S2 the call, whatever its output mode and request, does
\* nothing but the staleness check and returns Ok: no download, no helper
\* run, no write or removal, no printed line
C16_S2ReturnsWithoutEffect ==
    ScenarioS2 =>
        /\ pc \in {"check", "returned"}
        /\ log = <<>>
        /\ Returned => result.ok /\ result.err = ""
        /\ SelfUntouched /\ uv = pre.uv /\ py = pre.py /\ shim = pre.shim
        /\ buffer = NoBuffer

\* a new process is called in Quiet mode with a request for 3.13
C16_Witness ==
    /\ ScenarioS2 /\ Returned /\ result.ok
    /\ ~pre.cacheTrue
    /\ output = "Quiet"
    /\ request = Req("cpython", 3, 13)

(***************************************************************************)
(* C17: scenario S3                                                        *)
(***************************************************************************)
\* the call started with self/ a directory whose tool-version.txt is
\* missing or does not hold SELF_VERSION
ScenarioS3 ==
    /\ entry = "orchestrator"
    /\ InCall
    /\ pre.selfDir
    /\ ~MarkerCurrent(pre.selfDir, pre.toolVersion)

\* what S3 promises of a call
RefreshesSelf ==
    /\ pc # "check" =>
           IF output = "Quiet" THEN ~Has("echo_outdated")
           ELSE Len(log) > 0 /\ log[1] = "echo_outdated"
    /\ Has("provision") => Before("remove_self", "provision")
    /\ \A i \in 1..Len(log) :
           log[i] \in EffectEvents \ {"remove_self", "remove_self_failed"} =>
               \E j \in 1..(i - 1) : log[j] = "remove_self"
    /\ (Returned /\ result.ok) =>
           /\ Has("remove_self") /\ Has("venv") /\ Has("stamp")
           /\ MarkerCurrent(selfDir, toolVersion)

\* C17 as stated: in every call of scenario S3
C17_S3Refreshes == ScenarioS3 => RefreshesSelf

\* C17 amended: in every call of scenario S3 made while is_up_to_date() is
\* false, that is in a process whose staleness cache is not true and which
\* has not completed a bootstrap
C17_S3RefreshesUnlessCached == (ScenarioS3 /\ ~pre.cacheTrue) => RefreshesSelf

\* a Quiet call in a new process replaces a self/ stamped with 13
C17_Witness ==
    /\ ScenarioS3 /\ ~pre.cacheTrue
    /\ pre.toolVersion = <<"1", "3">>
    /\ output = "Quiet"
    /\ Returned /\ result.ok
    /\ Before("remove_self", "venv")
    /\ toolVersion = <<"1", "4">>

(***************************************************************************)
(* C18: shared libraries are validated before the environment is created   *)
(***************************************************************************)
\* C18: in every Linux call of the orchestrator, the environment is created
\* and the marker stamped only after ldd has run on the interpreter, be it
\* just downloaded or found installed; a call whose ldd output has a
\* `NAME => not found` line fails at once, before the environment is
\* created and before the marker is stamped; and a call that provisioned
\* and returned Ok saw an ldd output without such a line
C18_LibrariesValidatedBeforeVenv ==
    (entry = "orchestrator" /\ platform = "linux") =>
        /\ Has("venv") => Before("ldd", "venv")
        /\ Has("stamp") => Before("ldd", "stamp")
        /\ Has("ldd_not_found") =>
               /\ Returned /\ ~result.ok /\ result.err = "missing_libs"
               /\ ~Has("venv") /\ ~Has("venv_marker") /\ ~Has("stamp")
               /\ selfDir = (pre.selfDir /\ ~Has("remove_self"))
        /\ (Returned /\ result.ok /\ Has("provision")) =>
               Has("ldd") /\ ~Has("ldd_not_found")

\* a call that finds the interpreter installed and a missing library
C18_Witness ==
    /\ entry = "orchestrator" /\ platform = "linux"
    /\ Returned /\ result.err = "missing_libs"
    /\ Has("echo_found") /\ ~Has("download_py")
    /\ Before("ldd", "ldd_not_found")

(***************************************************************************)
(* C19: only HTTPS urls are downloaded                                     *)
(***************************************************************************)
BeginsWithHttps(u) ==
    /\ Len(u) >= 8
    /\ u[1] = "h" /\ u[2] = "t" /\ u[3] = "t" /\ u[4] = "p" /\ u[5] = "s"
    /\ u[6] = ":" /\ u[7] = "/" /\ u[8] = "/"

\* C19: a call of download_url or download_url_ignore_404 with a url that
\* does not begin with https:// does nothing before it fails with the
\* insecure-download error: the configuration is not read, no proxy is
\* looked up and nothing is transferred
C19_OnlyHttps ==
    (entry \in DownloadFns /\ InCall /\ ~BeginsWithHttps(url)) =>
        /\ pc \in {"dl_scheme", "returned"}
        /\ log = <<>>
        /\ Returned =>
               /\ ~result.ok
               /\ result.err = "Refusing insecure download"
               /\ ret = NoRet

\* download_url_ignore_404 has refused an upper-case scheme
C19_Witness ==
    /\ entry = "download_url_ignore_404"
    /\ Returned
    /\ url = <<"H", "T", "T", "P", "S", ":", "/", "/", "a">>
    /\ result.err = "Refusing insecure download"

(***************************************************************************)
(* C20: the response code                                                  *)
(***************************************************************************)
RecvEvents == {"recv_a", "recv_ab", "recv_bc"}

\* the chunks received in the current call, in order, were `body`
Received(body) ==
    SelectSeq(log, LAMBDA e : e \in RecvEvents)
        = [i \in 1..Len(body) |-> "recv_" \o body[i]]

\* C20: when the transfer of a call of download_url or
\* download_url_ignore_404 has ended with a response code: for 404,
\* download_url_ignore_404 returns Ok(None) and download_url fails with the
\* not-found error; for any other code outside 200..299 both fail with an
\* error carrying the code; for a code in 200..299 both return the bytes
\* received, in order
C20_ResponseCodes ==
    (entry \in DownloadFns /\ Returned) =>
        \A c \in ResponseCodes :
            Has("response_" \o ToString(c)) =>
                IF c = 404
                THEN IF entry = "download_url_ignore_404"
                     THEN result.ok /\ ~ret.some
                     ELSE ~result.ok /\ result.err = "Failed to download: 404 not found"
                ELSE IF c < 200 \/ c > 299
                THEN ~result.ok /\ result.err = "Failed to download: " \o ToString(c)
                ELSE /\ result.ok
                     /\ ret.some
                     /\ Received(<<>>) => ret.bytes = ""
                     /\ Received(<<"ab">>) => ret.bytes = "ab"
                     /\ Received(<<"a", "bc">>) => ret.bytes = "abc"

\* download_url has returned the two chunks of a 299 response
C20_Witness ==
    /\ entry = "download_url" /\ Returned /\ result.ok
    /\ Has("response_299")
    /\ Received(<<"a", "bc">>)
    /\ ret = [some |-> TRUE, bytes |-> "abc"]

(***************************************************************************)
(* C21: the staleness cache and the forced flag are monotone               *)
(***************************************************************************)
\* what a step of one process does to the two statics
CacheStep ==
    /\ upToUpdate # "unset" => upToUpdate' = upToUpdate
    /\ upToUpdate' # upToUpdate => pc = "check" /\ selfDir
    /\ forced => forced'
    /\ (~forced /\ forced') =>
           /\ Has("stamp")
           /\ toolVersion = <<"1", "4">>
           /\ pc' = "returned" /\ result'.ok
    /\ (forced /\ pc = "check" /\ selfDir) =>
           /\ pc' = "returned" /\ result'.ok /\ log' = <<>>

\* C21: in every step that is not the start of a new process, the cached
\* result of reading tool-version.txt, once set, does not change (the file
\* is read once, at a staleness check), FORCED_TO_UPDATE does not go back
\* to false, it becomes true only in a call that has stamped
\* tool-version.txt, and once it is true every staleness check returns Ok
C21_CacheIsMonotone == [][~NewProcess => CacheStep]_vars

\* the forced flag answers for a marker that was deleted after the bootstrap
C21_Witness ==
    /\ Returned /\ entry = "orchestrator" /\ result.ok
    /\ forced /\ upToUpdate = "false"
    /\ selfDir /\ toolVersion = NoFile
    /\ log = <<>>

(***************************************************************************)
(* C22: an error aborts the run and leaves earlier artifacts intact        *)
(***************************************************************************)
\* the errors of provisioning steps the log records
ErrorEvents ==
    {"remove_self_failed", "echo_missing_libs", "venv_nonzero", "pip_nonzero",
     "reqs_nonzero", "shim_failed"}

\* nothing follows an error: the call has returned Err at that step
AbortsAtError ==
    \A i \in 1..Len(log) :
        log[i] \in ErrorEvents => i = Len(log) /\ Returned /\ ~result.ok

\* helper and interpreter directories that were there are still there,
\* with the files they had; installed ones are unchanged
ArtifactsIntact ==
    /\ pre.uv.dir => uv.dir /\ pre.uv.files \subseteq uv.files
    /\ IsInstalled(pre.uv) => uv = pre.uv
    /\ \A v \in Catalog :
           /\ pre.py[v].dir => py[v].dir /\ pre.py[v].files \subseteq py[v].files
           /\ IsInstalled(pre.py[v]) => py[v] = pre.py[v]
    /\ (Has("mkdir_py") \/ Has("echo_found") \/ Has("ldd")) => IsInstalled(uv)
    /\ Has("ldd") => IsInstalled(py[version])

\* C22: in every orchestrator call, an error at a provisioning step is the
\* last thing the call does and the call returns Err; and after a call that
\* returned Err the helper directory and the interpreter directories that
\* were present before the failing step are present and unchanged
C22_ErrorAbortsAndKeepsArtifacts ==
    entry = "orchestrator" =>
        /\ AbortsAtError
        /\ (Returned /\ ~result.ok) => ArtifactsIntact

(***************************************************************************)
(* C23: the bootstrap subsystem touches only the fixed shim set in shims/. *)
(* During and after every orchestrator call, which contains the call of    *)
(* update_core_shims, every file of the shim directory other than the      *)
(* platform's fixed shim names is as it was when the call started: the     *)
(* shims named for another platform, and shims/rye, present or absent and  *)
(* with its bytes, also when it is the link target.                        *)
(***************************************************************************)
OtherShimFilesUnchanged ==
    /\ <<ryeInShims, ryeIntact>> = pre.rye
    /\ \A n \in ShimNames \ PlatformShims : shim[n] = pre.shim[n]

C23_OnlyFixedShimsTouched ==
    (InCall /\ entry = "orchestrator") => OtherShimFilesUnchanged

(***************************************************************************)
(* C24: quiet(false) restores verbose output.  Whatever the echo state was *)
(* before, while the guard of a quiet call is the innermost live guard and *)
(* the guards were dropped in the reverse order of their creation, the     *)
(* echo state is QUIET after quiet(true) and is not QUIET, so that echo    *)
(* lines are printed, after quiet(false).                                  *)
(***************************************************************************)
InnermostIs(fn, yes) ==
    /\ guards # <<>>
    /\ tui.lifo
    /\ Innermost.fn = fn
    /\ Innermost.yes = yes

C24_QuietFalseRestoresVerbose ==
    /\ InnermostIs("quiet", TRUE) =>
           /\ ECHO_STATE = QUIET
           /\ (tui.op = "_print" => tui.out = "nothing")
    /\ InnermostIs("quiet", FALSE) =>
           /\ ECHO_STATE # QUIET
           /\ (tui.op = "_print" => tui.out # "nothing")

(***************************************************************************)
(* C25: echo-state guards restore on drop.  The echo state is always one   *)
(* of STDOUT, STDERR and QUIET.  When the guards of redirect_to_stderr and *)
(* quiet calls are dropped in the reverse order of their creation, the     *)
(* state after each drop is the state that held just before the dropped    *)
(* guard was created, the state with no guard left is the state the        *)
(* sequence started in, and while a redirect_to_stderr(true) guard is the  *)
(* innermost live guard the echo lines go to stderr.                       *)
(***************************************************************************)
C25_GuardsRestoreOnDrop ==
    /\ ECHO_STATE \in {STDOUT, STDERR, QUIET}
    /\ tui.lifo =>
           /\ tui.op = "drop" => ECHO_STATE = tui.before
           /\ guards = <<>> => ECHO_STATE = tui.base
    /\ InnermostIs("redirect_to_stderr", TRUE) =>
           /\ EchoStateFrom(ECHO_STATE) = "STDERR"
           /\ (tui.op = "_print" => tui.out = "stderr")

\* a guard that had changed the state was dropped under a quiet guard and a
\* redirect_to_stderr(true) guard created in the QUIET state: the state is
\* STDERR again
C25_Witness ==
    /\ tui.op = "drop" /\ tui.before = STDERR
    /\ tui.lifo
    /\ Len(guards) = 2
    /\ guards[1].fn = "quiet"
    /\ guards[2].fn = "redirect_to_stderr" /\ guards[2].yes
    /\ guards[2].before = QUIET
    /\ ECHO_STATE = STDERR

====
